---- MODULE Spec2Model ----
(***************************************************************************)
(* Model of the anime / author / episode REST API.                         *)
(*                                                                         *)
(* The state is the content of the relational store (three tables, two     *)
(* association tables, the id generators) plus the answer to the last      *)
(* request.  Every handler of the service layer is one action, translated  *)
(* from services/*.py down through validations/*.py, factories, and        *)
(* repositories/*.py.  The constraints the table definitions declare       *)
(* (unique columns, composite primary keys, foreign keys, NOT NULL) are    *)
(* enforced by the store when a statement is committed; a violated         *)
(* constraint surfaces as an unhandled IntegrityError, i.e. answer 500.    *)
(*                                                                         *)
(* The modules are linked by role: where a caller and a callee disagree    *)
(* only on a parameter or method name (service keyword author_id versus    *)
(* validator parameter exclude_id, repository.exists versus exists_by_id,  *)
(* schema field temp versus column season) the call is taken to reach the  *)
(* callee with the values the caller passes.                               *)
(*                                                                         *)
(* Strings are sequences of one-character strings, dates are integers      *)
(* YYYYMMDD (the order of dates is the order of these integers).           *)
(***************************************************************************)
EXTENDS Integers, Sequences, FiniteSets, TLC

(***************************************************************************)
(* Bounds of the model.                                                    *)
(***************************************************************************)
MaxAnimes == 2
MaxAuthors == 2
MaxEpisodes == 2
\* longest string given to the sanitizers
MaxLen == 4

(***************************************************************************)
(* Program constants.                                                      *)
(***************************************************************************)
\* minimum release date, date(1907, 1, 1)
MinReleaseDate == 19070101
\* minimum birthday, date(1877, 11, 4)
MinBirthday == 18771104
\* datetime.now().date(): the day on which the requests are validated
Today == 20261104

\* HTTP answers: 200/201/204 from the routers, 404 and 409 raised as
\* HTTPException, 422 for a body the schema rejects, 500 for any other
\* exception that leaves the handler
Ok == "200"
Created == "201"
NoContent == "204"
NotFound == "404"
Conflict == "409"
Unprocessable == "422"
InternalError == "500"

(***************************************************************************)
(* String sanitizers.                                                      *)
(***************************************************************************)
Whitespace == {" ", "\t"}

\* str.lower() on one character of the model's alphabet
LowerChar(c) ==
  CASE c = "A" -> "a"
    [] c = "B" -> "b"
    [] c = "S" -> "s"
    [] OTHER -> c

\* value.lower()
convert_to_lowercase(s) == [i \in 1..Len(s) |-> LowerChar(s[i])]

\* value.split(): the maximal runs of non-whitespace characters
RECURSIVE SplitAcc(_, _, _)
SplitAcc(s, cur, acc) ==
  IF s = <<>>
  THEN IF cur = <<>> THEN acc ELSE Append(acc, cur)
  ELSE IF Head(s) \in Whitespace
       THEN SplitAcc(Tail(s), <<>>, IF cur = <<>> THEN acc ELSE Append(acc, cur))
       ELSE SplitAcc(Tail(s), Append(cur, Head(s)), acc)

Split(s) == SplitAcc(s, <<>>, <<>>)

\* ' '.join(words)
RECURSIVE Join(_)
Join(ws) ==
  IF ws = <<>> THEN <<>>
  ELSE IF Len(ws) = 1 THEN ws[1]
  ELSE ws[1] \o <<" ">> \o Join(Tail(ws))

\* the string with nothing removed
remove_extra_spaces_Kept(s) == s

\* ' '.join(value.split())
remove_extra_spaces(s) == Join(Split(s))

\* the 'after' field validator of the schemas
sanitize_string(s) == convert_to_lowercase(remove_extra_spaces(s))

\* str(n) for a natural number: the text a String column keeps for an integer
Digits == <<"0", "1", "2", "3", "4", "5", "6", "7", "8", "9">>

RECURSIVE IntToStr(_)
IntToStr(n) ==
  IF n < 10 THEN <<Digits[n + 1]>>
  ELSE Append(IntToStr(n \div 10), Digits[(n % 10) + 1])

(***************************************************************************)
(* Inputs of the requests.                                                 *)
(***************************************************************************)
RawNames == { <<"a">>, <<" ", "A">>, <<"b">> }
RawCategories == { <<"S">> }
ReleaseDates == { 19061231, MinReleaseDate, Today, 20261105 }
RawAliases == { <<>> }
Birthdays == { 18771103, MinBirthday, 20261105 }
Seasons == 1..2
EpisodeNumbers == 1..2
Arcs == { <<"x">> }
AirDates == { Today, 20261105 }

AnimeIds == 1..MaxAnimes
AuthorIds == 1..MaxAuthors
EpisodeIds == 1..MaxEpisodes

AnimeInputs == [name : RawNames, category : RawCategories, release_date : ReleaseDates]
AuthorInputs == [name : RawNames, alias : RawAliases, birthday : Birthdays]
EpisodeInputs ==
  [anime_id : AnimeIds, arc : Arcs, temp : Seasons, name : RawNames,
   episode : EpisodeNumbers, air_date : AirDates]

\* every string of at most MaxLen characters over blanks and letters
Alphabet == {" ", "\t", "A", "b"}
Strings == UNION {[1..n -> Alphabet] : n \in 0..MaxLen}
\* names with blanks around and between the words
SpacedNames == {<<" ", "A", " ", "\t", "S", " ">>, <<"a", " ", "s">>}
AnimeInputsSpaced == {[name |-> s, category |-> s, release_date |-> Today] : s \in SpacedNames}
AuthorInputsSpaced == {[name |-> s, alias |-> s, birthday |-> MinBirthday] : s \in SpacedNames}

\* default of page_size
DefaultPageSize == 100
\* the query strings of GET /episode
EpisodeQueries ==
  [arc : {{}, {<<>>}, {<<"x">>}}, temp : {{}, {0}, {1}}, name : {{}, {<<"1">>}},
   episode : {{}, {0}, {2}}, air_date : {{}, {Today}},
   page_size : {DefaultPageSize, 1}, start_index : {{}, {1}}]

\* bodies of any shape: the kind of value of each field
TextKinds == {"string", "integer"}
DateKinds == {"iso_date", "early_date", "future_date", "string", "integer"}
AnimeShapes == [name : TextKinds, category : TextKinds, release_date : DateKinds]
AuthorShapes == [name : TextKinds, alias : TextKinds, birthday : DateKinds]
EpisodeShapes ==
  [anime_id : TextKinds, arc : {"string", "integer", "null"}, temp : TextKinds,
   name : {"string", "integer", "null"}, episode : {"integer"},
   air_date : {"iso_date", "string"}]

NoBody == [none |-> TRUE]
Idle == [op |-> "idle"]
\* two requests in flight at a time
Workers == {1, 2}

VARIABLES
  animes,          \* table anime: id -> [name, category, release_date]
  authors,         \* table author: id -> [name, alias, birthday]
  episodes,        \* table episode: id -> [anime_id, arc, season, name, episode, air_date]
  anime_author,    \* table anime_author_association: set of [anime_id, author_id]
  episode_author,  \* table episode_author_association: set of [episode_id, author_id]
  seq,             \* the id generators of the three tables
  pending,         \* per worker: the request that passed its checks and has not written yet
  sessions,        \* per worker: the state of the database session of its request
  last             \* the answer to the last request

vars == <<animes, authors, episodes, anime_author, episode_author, seq, pending, sessions, last>>
store == <<animes, authors, episodes, anime_author, episode_author>>

Init ==
  /\ animes = <<>>
  /\ authors = <<>>
  /\ episodes = <<>>
  /\ anime_author = {}
  /\ episode_author = {}
  /\ seq = [anime |-> 1, author |-> 1, episode |-> 1]
  /\ pending = [w \in Workers |-> Idle]
  /\ sessions = [w \in Workers |-> "closed"]
  /\ last = [op |-> "none", status |-> Ok, id |-> 0, id2 |-> 0, body |-> NoBody]

Answer(op, status, id, id2, body) ==
  [op |-> op, status |-> status, id |-> id, id2 |-> id2, body |-> body]

\* a table with row id set to rec (INSERT or full UPDATE of the row)
Put(tbl, id, rec) == [i \in (DOMAIN tbl) \cup {id} |-> IF i = id THEN rec ELSE tbl[i]]

\* a table without row id
Drop(tbl, id) == [i \in (DOMAIN tbl) \ {id} |-> tbl[i]]

Max(a, b) == IF a >= b THEN a ELSE b

(***************************************************************************)
(* Anime: schema, repository, service.                                     *)
(***************************************************************************)
\* a date check that also refuses the minimum itself
AnimeSchemaValid_MinimumRefused(raw) ==
  /\ ~(raw.release_date > Today)
  /\ ~(raw.release_date <= MinReleaseDate)

\* AnimeSchema.validate_date: not in the future, not before the minimum
AnimeSchemaValid(raw) ==
  /\ ~(raw.release_date > Today)
  /\ ~(raw.release_date < MinReleaseDate)

\* AnimeSchema after its field validators: name and category sanitized
AnimeSchema(raw) ==
  [name |-> sanitize_string(raw.name),
   category |-> sanitize_string(raw.category),
   release_date |-> raw.release_date]

\* an existence query that finds every id
AnimeExistsById_Always(id) == TRUE

\* AnimeRepository.exists_by_id / AnimeRepository.get(...) is not None
AnimeExistsById(id) == id \in DOMAIN animes

\* AnimeRepository.is_name_taken_for_create
AnimeIsNameTakenForCreate(name) == \E i \in DOMAIN animes : animes[i].name = name

\* AnimeRepository.is_name_taken_for_update
AnimeIsNameTakenForUpdate(exclude_id, name) ==
  \E i \in DOMAIN animes : animes[i].name = name /\ i # exclude_id

\* AnimeRepository.is_related_to_episode
AnimeIsRelatedToEpisode(id) ==
  id \in DOMAIN animes /\ \E e \in DOMAIN episodes : episodes[e].anime_id = id

\* the table without its unique index
AnimeNameUnique_NoIndex(id, name) == TRUE

\* Column name of table anime: unique=True.  The index accepts the row
\* (id, name) iff no other row holds the name.
AnimeNameUnique(id, name) == \A i \in DOMAIN animes : i # id => animes[i].name # name

\* AnimeRepository.create: db.add, commit, refresh
AnimeRepositoryCreate(body, raw) ==
  IF AnimeNameUnique(seq.anime, body.name)
  THEN /\ seq.anime <= MaxAnimes
       /\ animes' = Put(animes, seq.anime, body)
       /\ seq' = [seq EXCEPT !.anime = @ + 1]
       /\ last' = Answer("anime_create", Created, seq.anime, 0, raw)
       /\ UNCHANGED <<authors, episodes, anime_author, episode_author>>
  ELSE /\ last' = Answer("anime_create", InternalError, 0, 0, raw)
       /\ UNCHANGED <<store, seq>>

\* AnimeService.create: no validator is called, the entity goes to the store
AnimeCreate(raw) ==
  /\ IF ~AnimeSchemaValid(raw)
     THEN /\ last' = Answer("anime_create", Unprocessable, 0, 0, raw)
          /\ UNCHANGED <<store, seq>>
     ELSE AnimeRepositoryCreate(AnimeSchema(raw), raw)
  /\ UNCHANGED pending

\* AnimeRepository.update: db.merge (UPDATE of the row with this primary
\* key, INSERT when there is none), commit
AnimeRepositoryUpdate(id, body, raw) ==
  IF AnimeNameUnique(id, body.name)
  THEN /\ animes' = Put(animes, id, body)
       /\ seq' = [seq EXCEPT !.anime = Max(@, id + 1)]
       /\ last' = Answer("anime_update", Ok, id, 0, raw)
       /\ UNCHANGED <<authors, episodes, anime_author, episode_author>>
  ELSE /\ last' = Answer("anime_update", InternalError, id, 0, raw)
       /\ UNCHANGED <<store, seq>>

\* the checks of AnimeService.update before the write: "422", "404" or "pass"
AnimeUpdateCheck(id, raw) ==
  IF ~AnimeSchemaValid(raw) THEN Unprocessable
  ELSE IF ~AnimeExistsById(id) THEN NotFound
  ELSE "pass"

\* AnimeService.update
AnimeUpdate(id, raw) ==
  /\ IF AnimeUpdateCheck(id, raw) # "pass"
     THEN /\ last' = Answer("anime_update", AnimeUpdateCheck(id, raw), id, 0, raw)
          /\ UNCHANGED <<store, seq>>
     ELSE AnimeRepositoryUpdate(id, AnimeSchema(raw), raw)
  /\ UNCHANGED pending

\* a delete whose statements are not one transaction: the rows of the
\* secondary table are gone although the delete of the anime is refused
AnimeRepositoryDelete_NoTransaction(id) ==
  IF id \notin DOMAIN animes \/ \E e \in DOMAIN episodes : episodes[e].anime_id = id
  THEN /\ anime_author' = {r \in anime_author : r.anime_id # id}
       /\ last' = Answer("anime_delete", InternalError, id, 0, NoBody)
       /\ UNCHANGED <<animes, authors, episodes, episode_author, seq>>
  ELSE /\ animes' = Drop(animes, id)
       /\ anime_author' = {r \in anime_author : r.anime_id # id}
       /\ last' = Answer("anime_delete", NoContent, id, 0, NoBody)
       /\ UNCHANGED <<authors, episodes, episode_author, seq>>

\* AnimeRepository.delete: query ... first(), db.delete, commit.  The unit of
\* work sets anime_id of the episodes of the anime to NULL (relationship
\* episodes without delete cascade), which the NOT NULL column refuses, and
\* removes the rows of the anime in the secondary table.
AnimeRepositoryDelete(id) ==
  IF id \notin DOMAIN animes \/ \E e \in DOMAIN episodes : episodes[e].anime_id = id
  THEN /\ last' = Answer("anime_delete", InternalError, id, 0, NoBody)
       /\ UNCHANGED <<store, seq>>
  ELSE /\ animes' = Drop(animes, id)
       /\ anime_author' = {r \in anime_author : r.anime_id # id}
       /\ last' = Answer("anime_delete", NoContent, id, 0, NoBody)
       /\ UNCHANGED <<authors, episodes, episode_author, seq>>

\* AnimeService.delete
AnimeDelete(id) ==
  /\ IF ~AnimeExistsById(id)
     THEN /\ last' = Answer("anime_delete", NotFound, id, 0, NoBody)
          /\ UNCHANGED <<store, seq>>
     ELSE AnimeRepositoryDelete(id)
  /\ UNCHANGED pending

(***************************************************************************)
(* Author: schema, validator, factory, repository, service.                *)
(***************************************************************************)
\* a body without birthday, or with birthday null
NoBirthday == 0

\* AuthorSchemaCreate: birthday is a required field, and validate_date refuses
\* what is no string, a date in the future and a date before the minimum
AuthorSchemaValid(raw) ==
  /\ raw.birthday # NoBirthday
  /\ ~(raw.birthday > Today)
  /\ ~(raw.birthday < MinBirthday)

\* AuthorSchemaCreate after its field validators: name and alias sanitized
AuthorSchema(raw) ==
  [name |-> sanitize_string(raw.name),
   alias |-> sanitize_string(raw.alias),
   birthday |-> raw.birthday]

\* AuthorFactory.create / create_for_update: the fields copied one by one
AuthorFactoryCreate(body) ==
  [name |-> body.name, alias |-> body.alias, birthday |-> body.birthday]

\* AuthorRepository.exists_by_id
AuthorExistsById(id) == id \in DOMAIN authors

\* the query as it would answer if requests that passed the check and have
\* not written yet were counted as holders of their name
AuthorIsNameTakenForCreate_CountsInFlight(name) ==
  \/ \E i \in DOMAIN authors : authors[i].name = name
  \/ \E w \in Workers : /\ pending[w].op = "author_create"
                        /\ sanitize_string(pending[w].raw.name) = name

\* AuthorRepository.is_name_taken_for_create
AuthorIsNameTakenForCreate(name) == \E i \in DOMAIN authors : authors[i].name = name

\* the query without its filter Author.id != exclude_id
AuthorIsNameTakenForUpdate_NoExclude(exclude_id, name) ==
  \E i \in DOMAIN authors : authors[i].name = name

\* AuthorRepository.is_name_taken_for_update
AuthorIsNameTakenForUpdate(exclude_id, name) ==
  \E i \in DOMAIN authors : authors[i].name = name /\ i # exclude_id

\* the check that never finds an anime
AuthorIsRelatedToAnimes_Never(id) == FALSE

\* AuthorRepository.is_related_to_animes: Author joined with its animes
AuthorIsRelatedToAnimes(id) ==
  id \in DOMAIN authors /\
  \E r \in anime_author : r.author_id = id /\ r.anime_id \in DOMAIN animes

\* the check that never finds an episode
AuthorIsRelatedToEpisodes_Never(id) == FALSE

\* AuthorRepository.is_related_to_episodes: Author joined with its episodes
AuthorIsRelatedToEpisodes(id) ==
  id \in DOMAIN authors /\
  \E r \in episode_author : r.author_id = id /\ r.episode_id \in DOMAIN episodes

\* the check that never finds the relation
AuthorHasRelationshipWithAnime_Never(author_id, anime_id) == FALSE

\* AuthorRepository.has_relationship_with_anime
AuthorHasRelationshipWithAnime(author_id, anime_id) ==
  [anime_id |-> anime_id, author_id |-> author_id] \in anime_author

\* AuthorValidator.validate_data_for_create: the first failed check, or "pass"
AuthorValidateDataForCreate(body) ==
  IF AuthorIsNameTakenForCreate(body.name) THEN Conflict
  ELSE IF body.birthday > Today THEN Conflict
  ELSE "pass"

\* AuthorValidator.validate_data_for_update: the first failed check, or "pass"
AuthorValidateDataForUpdate(exclude_id, body) ==
  IF AuthorIsNameTakenForUpdate(exclude_id, body.name) THEN Conflict
  ELSE IF body.birthday > Today THEN Conflict
  ELSE "pass"

\* AuthorValidator.validate_data_for_delete: the first failed check, or "pass"
AuthorValidateDataForDelete(id) ==
  IF ~AuthorExistsById(id) THEN NotFound
  ELSE IF AuthorIsRelatedToAnimes(id) THEN Conflict
  ELSE IF AuthorIsRelatedToEpisodes(id) THEN Conflict
  ELSE "pass"

\* Column name of table author: unique=True
AuthorNameUnique(id, name) == \A i \in DOMAIN authors : i # id => authors[i].name # name

\* AuthorRepository.create: db.add, commit, refresh
AuthorRepositoryCreate(author, raw) ==
  IF AuthorNameUnique(seq.author, author.name)
  THEN /\ seq.author <= MaxAuthors
       /\ authors' = Put(authors, seq.author, author)
       /\ seq' = [seq EXCEPT !.author = @ + 1]
       /\ last' = Answer("author_create", Created, seq.author, 0, raw)
       /\ UNCHANGED <<animes, episodes, anime_author, episode_author>>
  ELSE /\ last' = Answer("author_create", InternalError, 0, 0, raw)
       /\ UNCHANGED <<store, seq>>

\* the checks of AuthorService.create before the write
AuthorCreateCheck(raw) ==
  IF ~AuthorSchemaValid(raw) THEN Unprocessable
  ELSE AuthorValidateDataForCreate(AuthorSchema(raw))

\* AuthorService.create
AuthorCreate(raw) ==
  /\ IF AuthorCreateCheck(raw) # "pass"
     THEN /\ last' = Answer("author_create", AuthorCreateCheck(raw), 0, 0, raw)
          /\ UNCHANGED <<store, seq>>
     ELSE AuthorRepositoryCreate(AuthorFactoryCreate(AuthorSchema(raw)), raw)
  /\ UNCHANGED pending

\* AuthorRepository.update: db.merge (UPDATE of the row with this primary
\* key, INSERT when there is none), commit
AuthorRepositoryUpdate(id, author, raw) ==
  IF AuthorNameUnique(id, author.name)
  THEN /\ authors' = Put(authors, id, author)
       /\ seq' = [seq EXCEPT !.author = Max(@, id + 1)]
       /\ last' = Answer("author_update", Ok, id, 0, raw)
       /\ UNCHANGED <<animes, episodes, anime_author, episode_author>>
  ELSE /\ last' = Answer("author_update", InternalError, id, 0, raw)
       /\ UNCHANGED <<store, seq>>

\* the checks of AuthorService.update before the write
AuthorUpdateCheck(id, raw) ==
  IF ~AuthorSchemaValid(raw) THEN Unprocessable
  ELSE AuthorValidateDataForUpdate(id, AuthorSchema(raw))

\* AuthorService.update
AuthorUpdate(id, raw) ==
  /\ IF AuthorUpdateCheck(id, raw) # "pass"
     THEN /\ last' = Answer("author_update", AuthorUpdateCheck(id, raw), id, 0, raw)
          /\ UNCHANGED <<store, seq>>
     ELSE AuthorRepositoryUpdate(id, AuthorFactoryCreate(AuthorSchema(raw)), raw)
  /\ UNCHANGED pending

\* AuthorRepository.delete: query ... first(), db.delete, commit.  The unit of
\* work removes the rows of the author in both secondary tables.
AuthorRepositoryDelete(id) ==
  IF id \notin DOMAIN authors
  THEN /\ last' = Answer("author_delete", InternalError, id, 0, NoBody)
       /\ UNCHANGED <<store, seq>>
  ELSE /\ authors' = Drop(authors, id)
       /\ anime_author' = {r \in anime_author : r.author_id # id}
       /\ episode_author' = {r \in episode_author : r.author_id # id}
       /\ last' = Answer("author_delete", NoContent, id, 0, NoBody)
       /\ UNCHANGED <<animes, episodes, seq>>

\* AuthorService.delete
AuthorDelete(id) ==
  /\ IF AuthorValidateDataForDelete(id) # "pass"
     THEN /\ last' = Answer("author_delete", AuthorValidateDataForDelete(id), id, 0, NoBody)
          /\ UNCHANGED <<store, seq>>
     ELSE AuthorRepositoryDelete(id)
  /\ UNCHANGED pending

\* AuthorRepository.create_anime_relation: INSERT into the association
\* table (composite primary key, both columns foreign keys), commit
AuthorRepositoryCreateAnimeRelation(author_id, anime_id) ==
  IF /\ [anime_id |-> anime_id, author_id |-> author_id] \notin anime_author
     /\ anime_id \in DOMAIN animes
     /\ author_id \in DOMAIN authors
  THEN /\ anime_author' = anime_author \cup {[anime_id |-> anime_id, author_id |-> author_id]}
       /\ last' = Answer("author_anime_relation", Created, author_id, anime_id, NoBody)
       /\ UNCHANGED <<animes, authors, episodes, episode_author, seq>>
  ELSE /\ last' = Answer("author_anime_relation", InternalError, author_id, anime_id, NoBody)
       /\ UNCHANGED <<store, seq>>

\* the checks of AuthorService.create_anime_relation before the write
AuthorCreateAnimeRelationCheck(author_id, anime_id) ==
  IF ~AuthorExistsById(author_id) THEN NotFound
  ELSE IF ~AnimeExistsById(anime_id) THEN NotFound
  ELSE IF AuthorHasRelationshipWithAnime(author_id, anime_id) THEN Conflict
  ELSE "pass"

\* AuthorService.create_anime_relation
AuthorCreateAnimeRelation(author_id, anime_id) ==
  /\ IF AuthorCreateAnimeRelationCheck(author_id, anime_id) # "pass"
     THEN /\ last' = Answer("author_anime_relation",
                            AuthorCreateAnimeRelationCheck(author_id, anime_id),
                            author_id, anime_id, NoBody)
          /\ UNCHANGED <<store, seq>>
     ELSE AuthorRepositoryCreateAnimeRelation(author_id, anime_id)
  /\ UNCHANGED pending

(***************************************************************************)
(* Episode: schema, validator, factory, repository, service.               *)
(***************************************************************************)
\* EpisodeSchema after its field validator: arc and name sanitized; the
\* season travels in field temp, air_date is not checked by the schema
EpisodeSchema(raw) ==
  [anime_id |-> raw.anime_id,
   arc |-> sanitize_string(raw.arc),
   temp |-> raw.temp,
   name |-> sanitize_string(raw.name),
   episode |-> raw.episode,
   air_date |-> raw.air_date]

\* app/factory EpisodeFactory.create, the factory EpisodeService imports:
\* column name receives episode_body.temp, kept by the String column as text
EpisodeFactoryCreate(body) ==
  [anime_id |-> body.anime_id,
   arc |-> body.arc,
   season |-> body.temp,
   name |-> IntToStr(body.temp),
   episode |-> body.episode,
   air_date |-> body.air_date]

\* EpisodeRepository.exists_by_id
EpisodeExistsById(id) == id \in DOMAIN episodes

\* EpisodeRepository.anime_has_episodes
EpisodeAnimeHasEpisodes(anime_id) == \E e \in DOMAIN episodes : episodes[e].anime_id = anime_id

\* the query without its filter on Episode.anime_id
EpisodeIsEpisodeNumberTakenInSeason_AnyAnime(data) ==
  {e \in DOMAIN episodes :
     /\ episodes[e].season = data.season
     /\ episodes[e].episode = data.episode}

\* EpisodeRepository.is_episode_number_taken_in_season (base query):
\* the ids of the rows the query selects
EpisodeIsEpisodeNumberTakenInSeason(data) ==
  {e \in DOMAIN episodes :
     /\ episodes[e].anime_id = data.anime_id
     /\ episodes[e].season = data.season
     /\ episodes[e].episode = data.episode}

\* EpisodeRepository.is_episode_name_taken (base query)
EpisodeIsEpisodeNameTaken(data) ==
  {e \in DOMAIN episodes :
     /\ episodes[e].anime_id = data.anime_id
     /\ episodes[e].name = data.name}

\* EpisodeRepository.is_episode_number_taken_in_season_for_create
EpisodeIsNumberTakenForCreate(data) == EpisodeIsEpisodeNumberTakenInSeason(data) # {}

\* EpisodeRepository.is_episode_number_taken_in_temp_for_update
EpisodeIsNumberTakenForUpdate(exclude_id, data) ==
  \E e \in EpisodeIsEpisodeNumberTakenInSeason(data) : e # exclude_id

\* EpisodeRepository.is_episode_name_taken_for_create
EpisodeIsNameTakenForCreate(data) == EpisodeIsEpisodeNameTaken(data) # {}

\* EpisodeRepository.is_episode_name_taken_for_update
EpisodeIsNameTakenForUpdate(exclude_id, data) ==
  \E e \in EpisodeIsEpisodeNameTaken(data) : e # exclude_id

\* EpisodeValidator.validate_data_for_create: the first failed check, or "pass"
EpisodeValidateDataForCreate(data) ==
  IF data.air_date > Today THEN Conflict
  ELSE IF ~AnimeExistsById(data.anime_id) THEN NotFound
  ELSE IF ~EpisodeAnimeHasEpisodes(data.anime_id) THEN "pass"
  ELSE IF EpisodeIsNameTakenForCreate(data) THEN Conflict
  ELSE IF EpisodeIsNumberTakenForCreate(data) THEN Conflict
  ELSE "pass"

\* EpisodeValidator.validate_data_for_update: the first failed check, or
\* "pass"; both uniqueness checks receive exclude_anime_id = episode.anime_id
EpisodeValidateDataForUpdate(episode_id, data) ==
  IF ~EpisodeExistsById(episode_id) THEN NotFound
  ELSE IF data.air_date > Today THEN Conflict
  ELSE IF EpisodeIsNameTakenForUpdate(data.anime_id, data) THEN Conflict
  ELSE IF EpisodeIsNumberTakenForUpdate(data.anime_id, data) THEN Conflict
  ELSE "pass"

\* a column anime_id that holds any value
EpisodeForeignKeyOk_Unchecked(episode) == TRUE

\* Column anime_id of table episode: ForeignKey('anime.id'), nullable=False
EpisodeForeignKeyOk(episode) == episode.anime_id \in DOMAIN animes

\* EpisodeRepository.create: db.add, commit, refresh
EpisodeRepositoryCreate(episode, raw) ==
  IF EpisodeForeignKeyOk(episode)
  THEN /\ seq.episode <= MaxEpisodes
       /\ episodes' = Put(episodes, seq.episode, episode)
       /\ seq' = [seq EXCEPT !.episode = @ + 1]
       /\ last' = Answer("episode_create", Created, seq.episode, 0, raw)
       /\ UNCHANGED <<animes, authors, anime_author, episode_author>>
  ELSE /\ last' = Answer("episode_create", InternalError, 0, 0, raw)
       /\ UNCHANGED <<store, seq>>

\* EpisodeService.create: factory, then repository; no validator is called
EpisodeCreate(raw) ==
  /\ EpisodeRepositoryCreate(EpisodeFactoryCreate(EpisodeSchema(raw)), raw)
  /\ UNCHANGED pending

\* EpisodeRepository.update: episode.id = episode_id, db.merge, commit
EpisodeRepositoryUpdate(id, episode, raw) ==
  IF EpisodeForeignKeyOk(episode)
  THEN /\ episodes' = Put(episodes, id, episode)
       /\ seq' = [seq EXCEPT !.episode = Max(@, id + 1)]
       /\ last' = Answer("episode_update", Ok, id, 0, raw)
       /\ UNCHANGED <<animes, authors, anime_author, episode_author>>
  ELSE /\ last' = Answer("episode_update", InternalError, id, 0, raw)
       /\ UNCHANGED <<store, seq>>

\* EpisodeService.update
EpisodeUpdate(id, raw) ==
  /\ IF ~EpisodeExistsById(id)
     THEN /\ last' = Answer("episode_update", NotFound, id, 0, raw)
          /\ UNCHANGED <<store, seq>>
     ELSE EpisodeRepositoryUpdate(id, EpisodeFactoryCreate(EpisodeSchema(raw)), raw)
  /\ UNCHANGED pending

\* EpisodeRepository.delete: query ... first(), db.delete, commit.  The unit
\* of work removes the rows of the episode in the secondary table.
EpisodeRepositoryDelete(id) ==
  IF id \notin DOMAIN episodes
  THEN /\ last' = Answer("episode_delete", InternalError, id, 0, NoBody)
       /\ UNCHANGED <<store, seq>>
  ELSE /\ episodes' = Drop(episodes, id)
       /\ episode_author' = {r \in episode_author : r.episode_id # id}
       /\ last' = Answer("episode_delete", NoContent, id, 0, NoBody)
       /\ UNCHANGED <<animes, authors, anime_author, seq>>

\* EpisodeService.delete
EpisodeDelete(id) ==
  /\ IF ~EpisodeExistsById(id)
     THEN /\ last' = Answer("episode_delete", NotFound, id, 0, NoBody)
          /\ UNCHANGED <<store, seq>>
     ELSE EpisodeRepositoryDelete(id)
  /\ UNCHANGED pending

\* EpisodeRepository.create_author_relation: INSERT into the association
\* table (composite primary key, both columns foreign keys), commit
EpisodeRepositoryCreateAuthorRelation(episode_id, author_id) ==
  IF /\ [episode_id |-> episode_id, author_id |-> author_id] \notin episode_author
     /\ episode_id \in DOMAIN episodes
     /\ author_id \in DOMAIN authors
  THEN /\ episode_author' =
            episode_author \cup {[episode_id |-> episode_id, author_id |-> author_id]}
       /\ last' = Answer("episode_author_relation", Created, episode_id, author_id, NoBody)
       /\ UNCHANGED <<animes, authors, episodes, anime_author, seq>>
  ELSE /\ last' = Answer("episode_author_relation", InternalError, episode_id, author_id, NoBody)
       /\ UNCHANGED <<store, seq>>

\* the checks of EpisodeService.create_author_relation before the write
EpisodeCreateAuthorRelationCheck(episode_id, author_id) ==
  IF ~EpisodeExistsById(episode_id) THEN NotFound
  ELSE IF ~AuthorExistsById(author_id) THEN NotFound
  ELSE "pass"

\* EpisodeService.create_author_relation
EpisodeCreateAuthorRelation(episode_id, author_id) ==
  /\ IF EpisodeCreateAuthorRelationCheck(episode_id, author_id) # "pass"
     THEN /\ last' = Answer("episode_author_relation",
                            EpisodeCreateAuthorRelationCheck(episode_id, author_id),
                            episode_id, author_id, NoBody)
          /\ UNCHANGED <<store, seq>>
     ELSE EpisodeRepositoryCreateAuthorRelation(episode_id, author_id)
  /\ UNCHANGED pending

(***************************************************************************)
(* Reads by id.                                                            *)
(***************************************************************************)
\* AnimeService.get: the row with its id, 404 when there is none
AnimeGet(id) ==
  /\ last' = IF AnimeExistsById(id)
             THEN Answer("anime_get", Ok, id, 0, [id |-> id] @@ animes[id])
             ELSE Answer("anime_get", NotFound, id, 0, NoBody)
  /\ UNCHANGED <<store, seq, pending>>

\* AuthorService.get
AuthorGet(id) ==
  /\ last' = IF AuthorExistsById(id)
             THEN Answer("author_get", Ok, id, 0, [id |-> id] @@ authors[id])
             ELSE Answer("author_get", NotFound, id, 0, NoBody)
  /\ UNCHANGED <<store, seq, pending>>

\* EpisodeService.get
EpisodeGet(id) ==
  /\ last' = IF EpisodeExistsById(id)
             THEN Answer("episode_get", Ok, id, 0, [id |-> id] @@ episodes[id])
             ELSE Answer("episode_get", NotFound, id, 0, NoBody)
  /\ UNCHANGED <<store, seq, pending>>

\* the 'after' field validator of a schema applied to one string
SanitizeString(s) ==
  /\ last' = Answer("sanitize", Ok, 0, 0, [input |-> s, output |-> sanitize_string(s)])
  /\ UNCHANGED <<store, seq, pending>>

\* the body as EpisodeValidator reads it: the season is the field temp
EpisodeValidatorBody(raw) ==
  [anime_id |-> raw.anime_id,
   season |-> raw.temp,
   name |-> sanitize_string(raw.name),
   episode |-> raw.episode,
   air_date |-> raw.air_date]

\* a call of EpisodeValidator.validate_data_for_create
EpisodeValidateCreate(raw) ==
  /\ last' = Answer("episode_validate_create",
                    EpisodeValidateDataForCreate(EpisodeValidatorBody(raw)), 0, 0, raw)
  /\ UNCHANGED <<store, seq, pending>>

(***************************************************************************)
(* Lists.  An optional parameter is the empty set when it is absent (None) *)
(* and the set of its value when it is given.                              *)
(***************************************************************************)
\* the ids of a set of rows in the order of the primary key
RowOrder(I) ==
  [k \in 1..Cardinality(I) |-> CHOOSE i \in I : Cardinality({j \in I : j <= i}) = k]

\* "if value:" for a number: the parameter is given and is not 0
TruthyInt(opt) == opt # {} /\ opt # {0}

\* "if value:" for a string: the parameter is given and is not empty
TruthyStr(opt) == opt # {} /\ opt # {<<>>}

\* query.offset(start).limit(limit): offset None is no offset
OffsetLimit(rows, start, limit) ==
  LET from == IF start = {} THEN 0 ELSE CHOOSE n \in start : TRUE
      to == IF from + limit < Len(rows) THEN from + limit ELSE Len(rows)
  IN SubSeq(rows, from + 1, to)

\* EpisodeRepository.list: a filter_by for every parameter that is truthy
EpisodeRepositoryList(f) ==
  LET hits == {i \in DOMAIN episodes :
                 /\ TruthyInt(f.anime_id) => episodes[i].anime_id \in f.anime_id
                 /\ TruthyStr(f.arc) => episodes[i].arc \in f.arc
                 /\ TruthyInt(f.season) => episodes[i].season \in f.season
                 /\ TruthyStr(f.name) => episodes[i].name \in f.name
                 /\ TruthyInt(f.episode) => episodes[i].episode \in f.episode
                 /\ TruthyInt(f.air_date) => episodes[i].air_date \in f.air_date}
  IN OffsetLimit(RowOrder(hits), f.start, f.limit)

\* EpisodeService.list: the parameters of the route handed to the repository
\* (temp as season, no anime_id)
EpisodeList(q) ==
  /\ last' = Answer("episode_list", Ok, 0, 0,
                    [query |-> q,
                     rows |-> EpisodeRepositoryList(
                                [anime_id |-> {}, arc |-> q.arc, season |-> q.temp,
                                 name |-> q.name, episode |-> q.episode,
                                 air_date |-> q.air_date, limit |-> q.page_size,
                                 start |-> q.start_index])])
  /\ UNCHANGED <<store, seq, pending>>

\* AnimeRepository.get_by_episode: Anime joined to Episode on
\* Anime.id == Episode.id, filtered by Episode.id == episode_id; first() of
\* the rows, which are one at most
AnimeRepositoryGetByEpisode(episode_id) ==
  {a \in DOMAIN animes : \E e \in DOMAIN episodes : a = e /\ e = episode_id}

\* a call of AnimeRepository.get_by_episode
AnimeGetByEpisode(episode_id) ==
  /\ last' = Answer("anime_get_by_episode", Ok, episode_id, 0,
                    [found |-> AnimeRepositoryGetByEpisode(episode_id)])
  /\ UNCHANGED <<store, seq, pending>>

(***************************************************************************)
(* The birthday match.                                                     *)
(***************************************************************************)
\* the month and the day of a date
MonthDay(d) == d % 10000

\* authors born on the same day of the year as the date
AuthorGetByBirthday_Anniversary(target_date) ==
  {i \in DOMAIN authors : MonthDay(authors[i].birthday) = MonthDay(target_date)}

\* AuthorRepository.get_by_birthday
AuthorGetByBirthday(target_date) ==
  {i \in DOMAIN authors : authors[i].birthday = target_date}

\* AnimeRepository.get_by_release_date
AnimeGetByReleaseDate(target_date) ==
  {i \in DOMAIN animes : animes[i].release_date = target_date}

\* EpisodeRepository.get_by_release_date
EpisodeGetByReleaseDate(target_date) ==
  {i \in DOMAIN episodes : episodes[i].air_date = target_date}

\* BirthdayService.match_date: the three queries, put in one answer by
\* BirthdayFactory.create
BirthdayMatchDate(target_date) ==
  /\ last' = Answer("birthday_match", Ok, 0, 0,
                    [target_date |-> target_date,
                     anime |-> AnimeGetByReleaseDate(target_date),
                     author |-> AuthorGetByBirthday(target_date),
                     episode |-> EpisodeGetByReleaseDate(target_date)])
  /\ UNCHANGED <<store, seq, pending>>

(***************************************************************************)
(* The 'before' validators of the schemas on values of any shape.  A value *)
(* is given by its kind; a field validator accepts it ("ok"), raises       *)
(* ValueError, which is reported as the error of the field ("error"), or   *)
(* raises another exception, which ends the validation ("raise").          *)
(***************************************************************************)
\* values that are str
StringKinds == {"string", "iso_date", "early_date", "future_date"}

\* AnimeSchema: validate_str on name and category, validate_date on release_date
AnimeSchemaField(f, k) ==
  IF f \in {"name", "category"}
  THEN IF k \in StringKinds THEN "ok" ELSE "error"
  ELSE IF k = "iso_date" THEN "ok" ELSE "error"

\* AuthorSchemaCreate: validate_str on name and alias, validate_date on birthday
AuthorSchemaField(f, k) ==
  IF f \in {"name", "alias"}
  THEN IF k \in StringKinds THEN "ok" ELSE "error"
  ELSE IF k = "iso_date" THEN "ok" ELSE "error"

\* EpisodeSchema: sanitize_string on arc and name, which returns None as it
\* is and calls value.split() on any other value; the other fields have the
\* checks of their types only
EpisodeSchemaField(f, k) ==
  IF f = "arc"
  THEN IF k = "null" \/ k \in StringKinds THEN "ok" ELSE "raise"
  ELSE IF f = "name"
  THEN IF k \in StringKinds THEN "ok" ELSE IF k = "null" THEN "error" ELSE "raise"
  ELSE IF f = "air_date"
  THEN IF k \in {"iso_date", "early_date", "future_date"} THEN "ok" ELSE "error"
  ELSE IF k = "integer" THEN "ok" ELSE "error"

\* the validation of one body, given the outcome of the validator of each
\* field: the errors of every field in one list, unless a validator raised
\* something that is no ValueError
SchemaValidate(op, input, outcome) ==
  LET raised == \E f \in DOMAIN outcome : outcome[f] = "raise"
      errors == {f \in DOMAIN outcome : outcome[f] = "error"}
  IN Answer(op,
            IF raised THEN InternalError ELSE IF errors # {} THEN Unprocessable ELSE Ok,
            0, 0,
            [input |-> input, raised |-> raised, errors |-> IF raised THEN {} ELSE errors])

AnimeSchemaValidate(input) ==
  /\ last' = SchemaValidate("anime_schema", input,
                            [f \in DOMAIN input |-> AnimeSchemaField(f, input[f])])
  /\ UNCHANGED <<store, seq, pending>>

AuthorSchemaValidate(input) ==
  /\ last' = SchemaValidate("author_schema", input,
                            [f \in DOMAIN input |-> AuthorSchemaField(f, input[f])])
  /\ UNCHANGED <<store, seq, pending>>

EpisodeSchemaValidate(input) ==
  /\ last' = SchemaValidate("episode_schema", input,
                            [f \in DOMAIN input |-> EpisodeSchemaField(f, input[f])])
  /\ UNCHANGED <<store, seq, pending>>

(***************************************************************************)
(* Interleaved requests: a handler that reads before it writes is two      *)
(* steps of one worker, and other requests may run between the two.        *)
(***************************************************************************)
\* AnimeService.update up to the call of the repository
AnimeUpdateBegin(w, id, raw) ==
  /\ pending[w] = Idle
  /\ IF AnimeUpdateCheck(id, raw) # "pass"
     THEN /\ last' = Answer("anime_update", AnimeUpdateCheck(id, raw), id, 0, raw)
          /\ UNCHANGED pending
     ELSE /\ pending' = [pending EXCEPT ![w] = [op |-> "anime_update", id |-> id, raw |-> raw]]
          /\ UNCHANGED last
  /\ UNCHANGED <<store, seq>>

\* AnimeService.update from the call of the repository on
AnimeUpdateCommit(w) ==
  /\ pending[w].op = "anime_update"
  /\ AnimeRepositoryUpdate(pending[w].id, AnimeSchema(pending[w].raw), pending[w].raw)
  /\ pending' = [pending EXCEPT ![w] = Idle]

\* AnimeService.delete up to the call of the repository
AnimeDeleteBegin(w, id) ==
  /\ pending[w] = Idle
  /\ IF ~AnimeExistsById(id)
     THEN /\ last' = Answer("anime_delete", NotFound, id, 0, NoBody)
          /\ UNCHANGED pending
     ELSE /\ pending' = [pending EXCEPT ![w] = [op |-> "anime_delete", id |-> id, raw |-> NoBody]]
          /\ UNCHANGED last
  /\ UNCHANGED <<store, seq>>

\* AnimeService.delete from the call of the repository on
AnimeDeleteCommit(w) ==
  /\ pending[w].op = "anime_delete"
  /\ AnimeRepositoryDelete(pending[w].id)
  /\ pending' = [pending EXCEPT ![w] = Idle]

\* AuthorService.create up to the call of the repository
AuthorCreateBegin(w, raw) ==
  /\ pending[w] = Idle
  /\ IF AuthorCreateCheck(raw) # "pass"
     THEN /\ last' = Answer("author_create", AuthorCreateCheck(raw), 0, 0, raw)
          /\ UNCHANGED pending
     ELSE /\ pending' = [pending EXCEPT ![w] = [op |-> "author_create", id |-> 0, raw |-> raw]]
          /\ UNCHANGED last
  /\ UNCHANGED <<store, seq>>

\* AuthorService.create from the call of the repository on
AuthorCreateCommit(w) ==
  /\ pending[w].op = "author_create"
  /\ AuthorRepositoryCreate(AuthorFactoryCreate(AuthorSchema(pending[w].raw)), pending[w].raw)
  /\ pending' = [pending EXCEPT ![w] = Idle]

(***************************************************************************)
(* The database session of a request: get_db_connection is a generator     *)
(* dependency, entered before the handler and resumed after it.            *)
(***************************************************************************)
Successes == {Ok, Created, NoContent}

\* get_db_connection up to the yield: the session of the request is made
get_db_connection_open(w) ==
  /\ sessions[w] = "closed"
  /\ sessions' = [sessions EXCEPT ![w] = "open"]
  /\ UNCHANGED <<store, seq, pending, last>>

\* the body of the try: the handler runs with the yielded session, and
\* either returns or raises (HTTPException, or the error of the database)
get_db_connection_yield(w) ==
  /\ sessions[w] = "open"
  /\ sessions' = [sessions EXCEPT
                    ![w] = IF last'.status \in Successes THEN "returned" ELSE "raised"]

\* db.close() reached only when the handler returned
get_db_connection_close_NoFinally(w) ==
  /\ sessions[w] = "returned"
  /\ sessions' = [sessions EXCEPT ![w] = "closed"]
  /\ UNCHANGED <<store, seq, pending, last>>

\* finally: db.close(), whether the handler returned or raised
get_db_connection_close(w) ==
  /\ sessions[w] \in {"returned", "raised"}
  /\ sessions' = [sessions EXCEPT ![w] = "closed"]
  /\ UNCHANGED <<store, seq, pending, last>>

(***************************************************************************)
(* Specifications.                                                         *)
(***************************************************************************)
AnimeInputsFew ==
  [name : {<<"a">>, <<"b">>}, category : RawCategories, release_date : {Today}]
AnimeInputsOne ==
  [name : {<<"a">>}, category : RawCategories, release_date : {Today}]
AnimeInputsNames ==
  [name : RawNames, category : RawCategories, release_date : {Today}]
AuthorInputsFew ==
  [name : {<<"a">>, <<"b">>}, alias : RawAliases, birthday : {MinBirthday}]
EpisodeInputsFew ==
  [anime_id : AnimeIds, arc : Arcs, temp : {1}, name : {<<"a">>},
   episode : {1}, air_date : {Today}]

\* every handler, whole
Next ==
  \/ \E raw \in AnimeInputsFew : AnimeCreate(raw) /\ UNCHANGED sessions
  \/ \E id \in AnimeIds, raw \in AnimeInputsFew : AnimeUpdate(id, raw) /\ UNCHANGED sessions
  \/ \E id \in AnimeIds : AnimeDelete(id) /\ UNCHANGED sessions
  \/ \E raw \in AuthorInputsFew : AuthorCreate(raw) /\ UNCHANGED sessions
  \/ \E id \in AuthorIds, raw \in AuthorInputsFew : AuthorUpdate(id, raw) /\ UNCHANGED sessions
  \/ \E id \in AuthorIds : AuthorDelete(id) /\ UNCHANGED sessions
  \/ \E a \in AuthorIds, b \in AnimeIds : AuthorCreateAnimeRelation(a, b) /\ UNCHANGED sessions
  \/ \E raw \in EpisodeInputsFew : EpisodeCreate(raw) /\ UNCHANGED sessions
  \/ \E id \in EpisodeIds, raw \in EpisodeInputsFew : EpisodeUpdate(id, raw) /\ UNCHANGED sessions
  \/ \E id \in EpisodeIds : EpisodeDelete(id) /\ UNCHANGED sessions
  \/ \E e \in EpisodeIds, a \in AuthorIds : EpisodeCreateAuthorRelation(e, a) /\ UNCHANGED sessions

Spec == Init /\ [][Next]_vars

\* the anime requests with all their inputs, and the episodes they depend on
NextAnime ==
  \/ \E raw \in AnimeInputs : AnimeCreate(raw) /\ UNCHANGED sessions
  \/ \E id \in AnimeIds, raw \in AnimeInputs : AnimeUpdate(id, raw) /\ UNCHANGED sessions
  \/ \E id \in AnimeIds : AnimeDelete(id) /\ UNCHANGED sessions
  \/ \E raw \in EpisodeInputsFew : EpisodeCreate(raw) /\ UNCHANGED sessions
  \/ \E id \in EpisodeIds : EpisodeDelete(id) /\ UNCHANGED sessions

SpecAnime == Init /\ [][NextAnime]_vars

\* the author requests with all their inputs
NextAuthor ==
  \/ \E raw \in AuthorInputs : AuthorCreate(raw) /\ UNCHANGED sessions
  \/ \E id \in AuthorIds, raw \in AuthorInputs : AuthorUpdate(id, raw) /\ UNCHANGED sessions
  \/ \E id \in AuthorIds : AuthorDelete(id) /\ UNCHANGED sessions

SpecAuthor == Init /\ [][NextAuthor]_vars

\* the requests that create the author-anime relation
NextRelation ==
  \/ \E raw \in AnimeInputsFew : AnimeCreate(raw) /\ UNCHANGED sessions
  \/ \E raw \in AuthorInputsFew : AuthorCreate(raw) /\ UNCHANGED sessions
  \/ \E a \in AuthorIds, b \in AnimeIds : AuthorCreateAnimeRelation(a, b) /\ UNCHANGED sessions

SpecRelation == Init /\ [][NextRelation]_vars

\* deleting rows that have, or have not, association records
NextDelete ==
  \/ \E raw \in AnimeInputsOne : AnimeCreate(raw) /\ UNCHANGED sessions
  \/ \E raw \in AuthorInputsFew : AuthorCreate(raw) /\ UNCHANGED sessions
  \/ \E a \in AuthorIds, b \in AnimeIds : AuthorCreateAnimeRelation(a, b) /\ UNCHANGED sessions
  \/ \E raw \in EpisodeInputsFew : EpisodeCreate(raw) /\ UNCHANGED sessions
  \/ \E e \in EpisodeIds, a \in AuthorIds : EpisodeCreateAuthorRelation(e, a) /\ UNCHANGED sessions
  \/ \E id \in AnimeIds : AnimeDelete(id) /\ UNCHANGED sessions
  \/ \E id \in AuthorIds : AuthorDelete(id) /\ UNCHANGED sessions
  \/ \E id \in EpisodeIds : EpisodeDelete(id) /\ UNCHANGED sessions

SpecDelete == Init /\ [][NextDelete]_vars

\* deleting authors that have, or have not, association records
NextAuthorDelete ==
  \/ \E raw \in AnimeInputsOne : AnimeCreate(raw) /\ UNCHANGED sessions
  \/ \E raw \in AuthorInputsFew : AuthorCreate(raw) /\ UNCHANGED sessions
  \/ \E id \in AuthorIds : AuthorDelete(id) /\ UNCHANGED sessions
  \/ \E a \in AuthorIds, b \in AnimeIds : AuthorCreateAnimeRelation(a, b) /\ UNCHANGED sessions
  \/ \E raw \in EpisodeInputsFew : EpisodeCreate(raw) /\ UNCHANGED sessions
  \/ \E e \in EpisodeIds, a \in AuthorIds : EpisodeCreateAuthorRelation(e, a) /\ UNCHANGED sessions

SpecAuthorDelete == Init /\ [][NextAuthorDelete]_vars

\* the anime requests of concurrent workers
NextAnimeConc ==
  \/ \E raw \in AnimeInputsNames : AnimeCreate(raw) /\ UNCHANGED sessions
  \/ \E w \in Workers, id \in AnimeIds, raw \in AnimeInputsNames : AnimeUpdateBegin(w, id, raw) /\ UNCHANGED sessions
  \/ \E w \in Workers : AnimeUpdateCommit(w) /\ UNCHANGED sessions
  \/ \E w \in Workers, id \in AnimeIds : AnimeDeleteBegin(w, id) /\ UNCHANGED sessions
  \/ \E w \in Workers : AnimeDeleteCommit(w) /\ UNCHANGED sessions

SpecAnimeConc == Init /\ [][NextAnimeConc]_vars

\* the episode requests with all their inputs, and the animes they refer to
NextEpisode ==
  \/ \E raw \in AnimeInputsFew : AnimeCreate(raw) /\ UNCHANGED sessions
  \/ \E raw \in EpisodeInputs : EpisodeCreate(raw) /\ UNCHANGED sessions
  \/ \E id \in EpisodeIds, raw \in EpisodeInputs : EpisodeUpdate(id, raw) /\ UNCHANGED sessions
  \/ \E id \in EpisodeIds : EpisodeDelete(id) /\ UNCHANGED sessions

SpecEpisode == Init /\ [][NextEpisode]_vars

EpisodeInputsNames ==
  [anime_id : AnimeIds, arc : Arcs, temp : {1}, name : RawNames,
   episode : {1}, air_date : {Today}]

\* a create followed by reads by id
NextRoundTrip ==
  \/ \E raw \in AnimeInputsNames : AnimeCreate(raw) /\ UNCHANGED sessions
  \/ \E raw \in AuthorInputs : AuthorCreate(raw) /\ UNCHANGED sessions
  \/ \E raw \in EpisodeInputsNames : EpisodeCreate(raw) /\ UNCHANGED sessions
  \/ \E id \in AnimeIds : AnimeGet(id) /\ UNCHANGED sessions
  \/ \E id \in AuthorIds : AuthorGet(id) /\ UNCHANGED sessions
  \/ \E id \in EpisodeIds : EpisodeGet(id) /\ UNCHANGED sessions

SpecRoundTrip == Init /\ [][NextRoundTrip]_vars

AuthorInputsOne ==
  [name : {<<"a">>}, alias : RawAliases, birthday : {MinBirthday}]

\* the create, update and delete handlers of the three entities, on few
\* bodies, with anime-author relations for the deletes to meet
NextWrites ==
  \/ \E raw \in AnimeInputsOne : AnimeCreate(raw) /\ UNCHANGED sessions
  \/ \E id \in AnimeIds, raw \in AnimeInputsFew : AnimeUpdate(id, raw) /\ UNCHANGED sessions
  \/ \E id \in AnimeIds : AnimeDelete(id) /\ UNCHANGED sessions
  \/ \E raw \in AuthorInputsOne : AuthorCreate(raw) /\ UNCHANGED sessions
  \/ \E id \in AuthorIds, raw \in AuthorInputsOne : AuthorUpdate(id, raw) /\ UNCHANGED sessions
  \/ \E id \in AuthorIds : AuthorDelete(id) /\ UNCHANGED sessions
  \/ \E a \in AuthorIds, b \in AnimeIds : AuthorCreateAnimeRelation(a, b) /\ UNCHANGED sessions
  \/ \E raw \in EpisodeInputsFew : EpisodeCreate(raw) /\ UNCHANGED sessions
  \/ \E id \in EpisodeIds, raw \in EpisodeInputsFew : EpisodeUpdate(id, raw) /\ UNCHANGED sessions
  \/ \E id \in EpisodeIds : EpisodeDelete(id) /\ UNCHANGED sessions

SpecWrites == Init /\ [][NextWrites]_vars

\* the handlers that build their entity with a factory
NextFactory ==
  \/ \E raw \in AnimeInputsOne : AnimeCreate(raw) /\ UNCHANGED sessions
  \/ \E raw \in AuthorInputs : AuthorCreate(raw) /\ UNCHANGED sessions
  \/ \E id \in AuthorIds, raw \in AuthorInputs : AuthorUpdate(id, raw) /\ UNCHANGED sessions
  \/ \E raw \in EpisodeInputsNames : EpisodeCreate(raw) /\ UNCHANGED sessions
  \/ \E id \in EpisodeIds, raw \in EpisodeInputsNames : EpisodeUpdate(id, raw) /\ UNCHANGED sessions

SpecFactory == Init /\ [][NextFactory]_vars

\* anime and author creates over every date of the input sets
NextDates ==
  \/ \E raw \in AnimeInputs : AnimeCreate(raw) /\ UNCHANGED sessions
  \/ \E raw \in AuthorInputs : AuthorCreate(raw) /\ UNCHANGED sessions

SpecDates == Init /\ [][NextDates]_vars

\* the requests of a worker with the session it holds
RequestWithSession(w) ==
  \/ \E raw \in AuthorInputsFew : AuthorCreate(raw) /\ get_db_connection_yield(w)
  \/ \E id \in AuthorIds, raw \in AuthorInputsOne : AuthorUpdate(id, raw) /\ get_db_connection_yield(w)
  \/ \E id \in AuthorIds : AuthorDelete(id) /\ get_db_connection_yield(w)
  \/ \E id \in AuthorIds : AuthorGet(id) /\ get_db_connection_yield(w)

\* author requests, each between the opening and the closing of its session
NextSession ==
  \/ \E w \in Workers : get_db_connection_open(w)
  \/ \E w \in Workers : RequestWithSession(w)
  \/ \E w \in Workers : get_db_connection_close(w)

SpecSession == Init /\ [][NextSession]_vars

\* the server runs every request it accepted to its end: the handler is
\* called once the session is made, and the generator is resumed after it
SpecSessionFair ==
  /\ SpecSession
  /\ \A w \in Workers : WF_vars(RequestWithSession(w))
  /\ \A w \in Workers : WF_vars(get_db_connection_close(w))

\* two author creates in flight, the check and the write of each being two
\* steps
NextAuthorConc ==
  \/ \E w \in Workers, raw \in AuthorInputs : AuthorCreateBegin(w, raw) /\ UNCHANGED sessions
  \/ \E w \in Workers : AuthorCreateCommit(w) /\ UNCHANGED sessions

SpecAuthorConc == Init /\ [][NextAuthorConc]_vars

\* the sanitizer on every string, and the creates that store its results
NextNormalize ==
  \/ \E s \in Strings : SanitizeString(s) /\ UNCHANGED sessions
  \/ \E raw \in AnimeInputsSpaced : AnimeCreate(raw) /\ UNCHANGED sessions
  \/ \E raw \in AuthorInputsSpaced : AuthorCreate(raw) /\ UNCHANGED sessions

SpecNormalize == Init /\ [][NextNormalize]_vars

\* the schemas on bodies of every shape
NextShape ==
  \/ \E input \in AnimeShapes : AnimeSchemaValidate(input) /\ UNCHANGED sessions
  \/ \E input \in AuthorShapes : AuthorSchemaValidate(input) /\ UNCHANGED sessions
  \/ \E input \in EpisodeShapes : EpisodeSchemaValidate(input) /\ UNCHANGED sessions

SpecShape == Init /\ [][NextShape]_vars

EpisodeInputsSeasons ==
  [anime_id : {1}, arc : Arcs, temp : Seasons, name : {<<"a">>},
   episode : {1}, air_date : {Today}]

\* episodes stored, and the list queried with every filter
NextList ==
  \/ \E raw \in AnimeInputsOne : AnimeCreate(raw) /\ UNCHANGED sessions
  \/ \E raw \in EpisodeInputsSeasons : EpisodeCreate(raw) /\ UNCHANGED sessions
  \/ \E q \in EpisodeQueries : EpisodeList(q) /\ UNCHANGED sessions

SpecList == Init /\ [][NextList]_vars

AnimeInputsDated ==
  [name : {<<"a">>, <<"b">>}, category : RawCategories, release_date : {MinReleaseDate, Today}]
AuthorInputsDated ==
  [name : {<<"a">>, <<"b">>}, alias : RawAliases, birthday : {MinBirthday, Today}]
EpisodeInputsDated ==
  [anime_id : {1}, arc : Arcs, temp : {1}, name : {<<"a">>}, episode : {1},
   air_date : {MinReleaseDate, Today}]
TargetDates == {MinBirthday, MinReleaseDate, Today}

\* rows with their dates, and the match of a date
NextBirthday ==
  \/ \E raw \in AnimeInputsDated : AnimeCreate(raw) /\ UNCHANGED sessions
  \/ \E raw \in AuthorInputsDated : AuthorCreate(raw) /\ UNCHANGED sessions
  \/ \E raw \in EpisodeInputsDated : EpisodeCreate(raw) /\ UNCHANGED sessions
  \/ \E d \in TargetDates : BirthdayMatchDate(d) /\ UNCHANGED sessions

SpecBirthday == Init /\ [][NextBirthday]_vars

AuthorInputsOptional ==
  [name : {<<"a">>, <<"b">>}, alias : RawAliases,
   birthday : {NoBirthday, MinBirthday, Today, 20261105}]

\* author creates and updates, with and without a birthday
NextOptional ==
  \/ \E raw \in AuthorInputsOptional : AuthorCreate(raw) /\ UNCHANGED sessions
  \/ \E id \in AuthorIds, raw \in AuthorInputsOptional : AuthorUpdate(id, raw) /\ UNCHANGED sessions

SpecOptional == Init /\ [][NextOptional]_vars

\* animes with their episodes, and the anime of an episode looked up
NextOwner ==
  \/ \E raw \in AnimeInputsFew : AnimeCreate(raw) /\ UNCHANGED sessions
  \/ \E raw \in EpisodeInputsFew : EpisodeCreate(raw) /\ UNCHANGED sessions
  \/ \E id \in EpisodeIds : EpisodeDelete(id) /\ UNCHANGED sessions
  \/ \E id \in EpisodeIds : AnimeGetByEpisode(id) /\ UNCHANGED sessions

SpecOwner == Init /\ [][NextOwner]_vars

EpisodeInputsNumbers ==
  [anime_id : AnimeIds, arc : Arcs, temp : {1}, name : {<<"a">>},
   episode : EpisodeNumbers, air_date : {Today}]
EpisodeInputsGate ==
  [anime_id : AnimeIds, arc : Arcs, temp : {1}, name : {<<"a">>, <<"1">>},
   episode : EpisodeNumbers, air_date : AirDates]

\* animes with and without episodes, and the create validation on every body
NextGate ==
  \/ \E raw \in AnimeInputsFew : AnimeCreate(raw) /\ UNCHANGED sessions
  \/ \E raw \in EpisodeInputsNumbers : EpisodeCreate(raw) /\ UNCHANGED sessions
  \/ \E id \in EpisodeIds : EpisodeDelete(id) /\ UNCHANGED sessions
  \/ \E raw \in EpisodeInputsGate : EpisodeValidateCreate(raw) /\ UNCHANGED sessions

SpecGate == Init /\ [][NextGate]_vars

\* every write of animes and episodes
NextOwnership ==
  \/ \E raw \in AnimeInputsFew : AnimeCreate(raw) /\ UNCHANGED sessions
  \/ \E id \in AnimeIds, raw \in AnimeInputsFew : AnimeUpdate(id, raw) /\ UNCHANGED sessions
  \/ \E id \in AnimeIds : AnimeDelete(id) /\ UNCHANGED sessions
  \/ \E raw \in EpisodeInputsFew : EpisodeCreate(raw) /\ UNCHANGED sessions
  \/ \E id \in EpisodeIds, raw \in EpisodeInputsFew : EpisodeUpdate(id, raw) /\ UNCHANGED sessions
  \/ \E id \in EpisodeIds : EpisodeDelete(id) /\ UNCHANGED sessions

SpecOwnership == Init /\ [][NextOwnership]_vars

(***************************************************************************)
(* Properties.                                                             *)
(***************************************************************************)
\* C1: in every reachable state, whatever the interleaving of the anime
\* create, update and delete requests, no two stored animes have the same
\* normalized name.
C1_AnimeNamesUnique ==
  \A i, j \in DOMAIN animes :
    i # j => sanitize_string(animes[i].name) # sanitize_string(animes[j].name)

\* two animes are stored and the write of an update that would have given
\* one of them the name of the other has just been refused
C1_Witness ==
  /\ Cardinality(DOMAIN animes) = 2
  /\ last.op = "anime_update"
  /\ last.status = InternalError

\* C2: creating an anime whose normalized name is the name of a stored
\* anime answers 409 and stores nothing; creating one whose name is free
\* succeeds.
C2_DuplicateAnimeCreateIsConflict ==
  [][ (last'.op = "anime_create" /\ AnimeSchemaValid(last'.body)) =>
        IF AnimeIsNameTakenForCreate(sanitize_string(last'.body.name))
        THEN last'.status = Conflict /\ store' = store
        ELSE /\ last'.status = Created
             /\ last'.id \in DOMAIN animes'
             /\ animes'[last'.id].name = sanitize_string(last'.body.name) ]_vars

AuthorNamesDistinct ==
  \A i, j \in DOMAIN authors :
    i # j => sanitize_string(authors[i].name) # sanitize_string(authors[j].name)

\* C3: no two stored authors share a normalized name; a create with a taken
\* name and an update to a name held by a different author answer 409 and
\* write nothing; an update of a stored author that keeps its own name is
\* accepted.
C3_AuthorNamesUnique ==
  [][ /\ AuthorNamesDistinct'
      /\ (last'.op = "author_create" /\ AuthorSchemaValid(last'.body)
            /\ AuthorIsNameTakenForCreate(sanitize_string(last'.body.name)))
         => (last'.status = Conflict /\ store' = store)
      /\ (last'.op = "author_update" /\ AuthorSchemaValid(last'.body)
            /\ \E i \in DOMAIN authors :
                 i # last'.id /\ authors[i].name = sanitize_string(last'.body.name))
         => (last'.status = Conflict /\ store' = store)
      /\ (last'.op = "author_update" /\ AuthorSchemaValid(last'.body)
            /\ last'.id \in DOMAIN authors
            /\ authors[last'.id].name = sanitize_string(last'.body.name))
         => (last'.status = Ok /\ authors'[last'.id].name = authors[last'.id].name) ]_vars

\* two authors are stored and an update of one to the name of the other has
\* just been answered 409
C3_Witness ==
  /\ Cardinality(DOMAIN authors) = 2
  /\ last.op = "author_update"
  /\ last.status = Conflict
  /\ \E i \in DOMAIN authors :
       i # last.id /\ authors[i].name = sanitize_string(last.body.name)

\* C4: no two stored episodes have the same (anime_id, season, episode).
C4_EpisodeNumberUnique ==
  \A e1, e2 \in DOMAIN episodes :
    e1 # e2 =>
      <<episodes[e1].anime_id, episodes[e1].season, episodes[e1].episode>> #
      <<episodes[e2].anime_id, episodes[e2].season, episodes[e2].episode>>

\* C5: no two stored episodes of the same anime have the same normalized name.
C5_EpisodeNameUnique ==
  \A e1, e2 \in DOMAIN episodes :
    (e1 # e2 /\ episodes[e1].anime_id = episodes[e2].anime_id) =>
      sanitize_string(episodes[e1].name) # sanitize_string(episodes[e2].name)

\* the body that keeps the anime_id, name, season and episode of row e
EpisodeOwnData(e) ==
  [anime_id |-> episodes[e].anime_id,
   season |-> episodes[e].season,
   name |-> episodes[e].name,
   episode |-> episodes[e].episode,
   air_date |-> episodes[e].air_date]

\* C6: the update validation of an episode answers 409 for a body with a
\* valid air date exactly when a different episode of the same anime holds
\* the name, or the number in the season, of the body; in particular never
\* for the body that keeps the episode's own values when no other episode
\* shares them.
C6_EpisodeUpdateExcludesSelf ==
  \A id \in DOMAIN episodes, e \in DOMAIN episodes :
    ~(episodes[e].air_date > Today) =>
      ( EpisodeValidateDataForUpdate(id, EpisodeOwnData(e)) = Conflict
        <=> \E o \in DOMAIN episodes \ {id} :
              /\ episodes[o].anime_id = episodes[e].anime_id
              /\ \/ episodes[o].name = episodes[e].name
                 \/ /\ episodes[o].season = episodes[e].season
                    /\ episodes[o].episode = episodes[e].episode )

\* C7: deleting an anime that an episode refers to answers 409 and leaves
\* the anime stored; deleting a stored anime that no episode refers to
\* succeeds and removes it.
C7_AnimeDeleteBlockedByEpisodes ==
  [][ (last'.op = "anime_delete" /\ last'.id \in DOMAIN animes) =>
        IF \E e \in DOMAIN episodes : episodes[e].anime_id = last'.id
        THEN last'.status = Conflict /\ store' = store
        ELSE last'.status = NoContent /\ last'.id \notin DOMAIN animes' ]_vars

AuthorHasAssociation(id) ==
  \/ \E r \in anime_author : r.author_id = id
  \/ \E r \in episode_author : r.author_id = id

\* C8: deleting a stored author that has an anime-author or episode-author
\* association answers 409 and leaves the author and the associations
\* stored; deleting a stored author without association removes it.
C8_AuthorDeleteBlockedByAssociations ==
  [][ (last'.op = "author_delete" /\ last'.id \in DOMAIN authors) =>
        IF AuthorHasAssociation(last'.id)
        THEN last'.status = Conflict /\ store' = store
        ELSE last'.status = NoContent /\ last'.id \notin DOMAIN authors' ]_vars

\* the delete of an author whose only associations are with episodes has
\* just been answered 409
C8_Witness ==
  /\ last.op = "author_delete"
  /\ last.status = Conflict
  /\ last.id \in DOMAIN authors
  /\ \E r \in episode_author : r.author_id = last.id
  /\ ~\E r \in anime_author : r.author_id = last.id

NoDanglingAssociation ==
  /\ \A r \in anime_author : r.anime_id \in DOMAIN animes /\ r.author_id \in DOMAIN authors
  /\ \A r \in episode_author : r.episode_id \in DOMAIN episodes /\ r.author_id \in DOMAIN authors

\* C9: a delete of an anime, author or episode that takes part in an
\* association record is rejected and writes nothing, and every association
\* record refers to stored rows.
C9_DeleteWithAssociationRejected ==
  [][ /\ NoDanglingAssociation'
      /\ (last'.op = "anime_delete" /\ \E r \in anime_author : r.anime_id = last'.id)
         => (last'.status # NoContent /\ store' = store)
      /\ (last'.op = "author_delete" /\ AuthorHasAssociation(last'.id))
         => (last'.status # NoContent /\ store' = store)
      /\ (last'.op = "episode_delete" /\ \E r \in episode_author : r.episode_id = last'.id)
         => (last'.status # NoContent /\ store' = store) ]_vars

\* C9, with rejection for authors only: a delete of an author that takes
\* part in an association
\* record is rejected and writes nothing; a delete of an anime or of an
\* episode is not held back by its association records with authors, which
\* leave the store together with the row; every association record refers
\* to stored rows.
C9_NoDanglingAssociation ==
  [][ /\ NoDanglingAssociation'
      /\ (last'.op = "author_delete" /\ AuthorHasAssociation(last'.id))
         => (last'.status = Conflict /\ store' = store)
      /\ (last'.op = "anime_delete" /\ last'.id \in DOMAIN animes
            /\ ~\E e \in DOMAIN episodes : episodes[e].anime_id = last'.id)
         => /\ last'.status = NoContent
            /\ anime_author' = {r \in anime_author : r.anime_id # last'.id}
      /\ (last'.op = "episode_delete" /\ last'.id \in DOMAIN episodes)
         => /\ last'.status = NoContent
            /\ episode_author' = {r \in episode_author : r.episode_id # last'.id} ]_vars

\* the delete of an author related to an anime has just been answered 409,
\* after an episode has been created and deleted
C9_Witness ==
  /\ last.op = "author_delete"
  /\ last.status = Conflict
  /\ \E r \in anime_author : r.author_id = last.id
  /\ seq.episode > 1
  /\ DOMAIN episodes = {}

\* C10: for a stored author and a stored anime, creating their relation
\* succeeds when it is absent and answers 409, writing nothing, whenever it
\* is already present.
C10_AnimeRelationOnce ==
  [][ (last'.op = "author_anime_relation"
         /\ last'.id \in DOMAIN authors /\ last'.id2 \in DOMAIN animes) =>
        IF [anime_id |-> last'.id2, author_id |-> last'.id] \in anime_author
        THEN last'.status = Conflict /\ store' = store
        ELSE /\ last'.status = Created
             /\ anime_author' =
                  anime_author \cup {[anime_id |-> last'.id2, author_id |-> last'.id]} ]_vars

\* the second attempt to create a stored relation has just been answered 409
C10_Witness ==
  /\ last.op = "author_anime_relation"
  /\ last.status = Conflict
  /\ [anime_id |-> last.id2, author_id |-> last.id] \in anime_author

\* C11: creating an episode-author relation that is already present answers
\* 409 and inserts nothing.
C11_EpisodeRelationOnce ==
  [][ (last'.op = "episode_author_relation"
         /\ [episode_id |-> last'.id, author_id |-> last'.id2] \in episode_author)
        => (last'.status = Conflict /\ store' = store) ]_vars

\* C12: creating an author-anime relation whose author id or anime id is not
\* stored answers 404 and inserts no association record.
C12_AnimeRelationNotFound ==
  [][ (last'.op = "author_anime_relation"
         /\ (last'.id \notin DOMAIN authors \/ last'.id2 \notin DOMAIN animes))
        => (last'.status = NotFound /\ store' = store) ]_vars

\* a relation of a stored author with an anime id that is not stored has
\* just been answered 404, another anime being stored
C12_Witness ==
  /\ last.op = "author_anime_relation"
  /\ last.status = NotFound
  /\ last.id \in DOMAIN authors
  /\ last.id2 \notin DOMAIN animes
  /\ DOMAIN animes # {}

NoFutureDate ==
  /\ \A i \in DOMAIN animes : ~(animes[i].release_date > Today)
  /\ \A i \in DOMAIN authors : ~(authors[i].birthday > Today)
  /\ \A i \in DOMAIN episodes : ~(episodes[i].air_date > Today)

\* C13: creating an anime, an author or an episode (of a stored anime) whose
\* date is later than today is answered with a future-date error (422 of the schema, 409 of a
\* validator) and stores nothing, so no stored row has a date later than
\* today.
C13_NoFutureDates ==
  [][ /\ NoFutureDate'
      /\ (last'.op = "anime_create" /\ last'.body.release_date > Today)
         => (last'.status \in {Unprocessable, Conflict} /\ store' = store)
      /\ (last'.op = "author_create" /\ last'.body.birthday > Today)
         => (last'.status \in {Unprocessable, Conflict} /\ store' = store)
      /\ (last'.op = "episode_create" /\ last'.body.air_date > Today
            /\ last'.body.anime_id \in DOMAIN animes)
         => (last'.status \in {Unprocessable, Conflict} /\ store' = store) ]_vars

\* C14: creating an anime with a release date before 1907-01-01, or an
\* author with a birthday before 1877-11-04, is answered with the schema's
\* error and stores nothing; with the date equal to the minimum and a free
\* name the create succeeds and stores the date.
C14_MinimumDates ==
  [][ /\ (last'.op = "anime_create" /\ last'.body.release_date < MinReleaseDate)
         => (last'.status = Unprocessable /\ store' = store)
      /\ (last'.op = "anime_create" /\ last'.body.release_date = MinReleaseDate
            /\ ~AnimeIsNameTakenForCreate(sanitize_string(last'.body.name)))
         => /\ last'.status = Created
            /\ last'.id \in DOMAIN animes'
            /\ animes'[last'.id].release_date = MinReleaseDate
      /\ (last'.op = "author_create" /\ last'.body.birthday < MinBirthday)
         => (last'.status = Unprocessable /\ store' = store)
      /\ (last'.op = "author_create" /\ last'.body.birthday = MinBirthday
            /\ ~AuthorIsNameTakenForCreate(sanitize_string(last'.body.name)))
         => /\ last'.status = Created
            /\ last'.id \in DOMAIN authors'
            /\ authors'[last'.id].birthday = MinBirthday ]_vars

\* an anime released on the minimum date and an author born on the minimum
\* date are stored, and a create with a date before the minimum has just
\* been refused
C14_Witness ==
  /\ \E i \in DOMAIN animes : animes[i].release_date = MinReleaseDate
  /\ \E i \in DOMAIN authors : authors[i].birthday = MinBirthday
  /\ last.op = "anime_create"
  /\ last.status = Unprocessable
  /\ last.body.release_date < MinReleaseDate

\* C15: creating an episode of a stored anime that has no episode succeeds,
\* whatever the episodes of other animes hold; creating an episode with the
\* season and episode number of a stored episode of the same anime answers
\* 409 and stores nothing.
C15_FirstEpisodeGate ==
  [][ (last'.op = "episode_create" /\ last'.body.anime_id \in DOMAIN animes
         /\ ~(last'.body.air_date > Today)) =>
        IF ~EpisodeAnimeHasEpisodes(last'.body.anime_id)
        THEN /\ last'.status = Created
             /\ last'.id \in DOMAIN episodes' \ DOMAIN episodes
        ELSE (\E e \in DOMAIN episodes :
                /\ episodes[e].anime_id = last'.body.anime_id
                /\ episodes[e].season = last'.body.temp
                /\ episodes[e].episode = last'.body.episode)
             => (last'.status = Conflict /\ store' = store) ]_vars

\* C16: a read by id that follows a successful create returns the
\* normalized input on every input field, with the generated id.
C16_RoundTrip ==
  [][ /\ (last.op = "anime_create" /\ last.status = Created
            /\ last'.op = "anime_get" /\ last'.id = last.id)
         => /\ last'.status = Ok
            /\ last'.body = [id |-> last.id,
                             name |-> sanitize_string(last.body.name),
                             category |-> sanitize_string(last.body.category),
                             release_date |-> last.body.release_date]
      /\ (last.op = "author_create" /\ last.status = Created
            /\ last'.op = "author_get" /\ last'.id = last.id)
         => /\ last'.status = Ok
            /\ last'.body = [id |-> last.id,
                             name |-> sanitize_string(last.body.name),
                             alias |-> sanitize_string(last.body.alias),
                             birthday |-> last.body.birthday]
      /\ (last.op = "episode_create" /\ last.status = Created
            /\ last'.op = "episode_get" /\ last'.id = last.id)
         => /\ last'.status = Ok
            /\ last'.body = [id |-> last.id,
                             anime_id |-> last.body.anime_id,
                             arc |-> sanitize_string(last.body.arc),
                             season |-> last.body.temp,
                             name |-> sanitize_string(last.body.name),
                             episode |-> last.body.episode,
                             air_date |-> last.body.air_date] ]_vars

\* C17: the entity a factory builds holds every field of the schema it was
\* given, unchanged and under the same name, and the entity built for an
\* update is stored under the id of the request.
C17_FactoriesCopy ==
  /\ (last.op \in {"author_create", "author_update"} /\ last.status \in {Created, Ok})
     => /\ AuthorFactoryCreate(AuthorSchema(last.body)) = AuthorSchema(last.body)
        /\ last.id \in DOMAIN authors
        /\ authors[last.id] = AuthorSchema(last.body)
  /\ (last.op \in {"episode_create", "episode_update"} /\ last.status \in {Created, Ok})
     => /\ last.id \in DOMAIN episodes
        /\ episodes[last.id] =
             [anime_id |-> EpisodeSchema(last.body).anime_id,
              arc |-> EpisodeSchema(last.body).arc,
              season |-> EpisodeSchema(last.body).temp,
              name |-> EpisodeSchema(last.body).name,
              episode |-> EpisodeSchema(last.body).episode,
              air_date |-> EpisodeSchema(last.body).air_date]

\* every row of old but the one of id is in new, unchanged, and new has no
\* other row
OthersKept(old, new, id) ==
  /\ DOMAIN new \subseteq DOMAIN old \cup {id}
  /\ \A i \in DOMAIN old \ {id} : i \in DOMAIN new /\ new[i] = old[i]

\* C18: a create, update or delete request that is answered with an error
\* leaves every table as it was; one that succeeds has its whole effect: the
\* row of the request is written (created, replaced) or removed together
\* with its association records, and nothing else changes.
C18_NoPartialWrite ==
  [][ /\ (last'.op \in {"anime_create", "anime_update", "anime_delete",
                        "author_create", "author_update", "author_delete",
                        "episode_create", "episode_update", "episode_delete",
                        "author_anime_relation"}
            /\ last'.status \notin {Ok, Created, NoContent})
         => store' = store
      /\ (last'.op \in {"anime_create", "anime_update"}
            /\ last'.status \in {Ok, Created})
         => /\ last'.id \in DOMAIN animes'
            /\ OthersKept(animes, animes', last'.id)
            /\ UNCHANGED <<authors, episodes, anime_author, episode_author>>
      /\ (last'.op \in {"author_create", "author_update"}
            /\ last'.status \in {Ok, Created})
         => /\ last'.id \in DOMAIN authors'
            /\ OthersKept(authors, authors', last'.id)
            /\ UNCHANGED <<animes, episodes, anime_author, episode_author>>
      /\ (last'.op \in {"episode_create", "episode_update"}
            /\ last'.status \in {Ok, Created})
         => /\ last'.id \in DOMAIN episodes'
            /\ OthersKept(episodes, episodes', last'.id)
            /\ UNCHANGED <<animes, authors, anime_author, episode_author>>
      /\ (last'.op = "anime_delete" /\ last'.status = NoContent)
         => /\ last'.id \notin DOMAIN animes'
            /\ OthersKept(animes, animes', last'.id)
            /\ anime_author' = {r \in anime_author : r.anime_id # last'.id}
            /\ UNCHANGED <<authors, episodes, episode_author>>
      /\ (last'.op = "author_delete" /\ last'.status = NoContent)
         => /\ last'.id \notin DOMAIN authors'
            /\ OthersKept(authors, authors', last'.id)
            /\ UNCHANGED <<animes, episodes, anime_author, episode_author>>
      /\ (last'.op = "episode_delete" /\ last'.status = NoContent)
         => /\ last'.id \notin DOMAIN episodes'
            /\ OthersKept(episodes, episodes', last'.id)
            /\ episode_author' = {r \in episode_author : r.episode_id # last'.id}
            /\ UNCHANGED <<animes, authors, anime_author>>
      /\ (last'.op = "author_anime_relation" /\ last'.status = Created)
         => /\ anime_author' =
                 anime_author \cup {[anime_id |-> last'.id2, author_id |-> last'.id]}
            /\ UNCHANGED <<animes, authors, episodes, episode_author>> ]_vars

\* the delete of an anime that has an episode and a relation with an author
\* has just been refused, and the relation is still stored
C18_Witness ==
  /\ last.op = "anime_delete"
  /\ last.status = InternalError
  /\ last.id \in DOMAIN animes
  /\ \E r \in anime_author : r.anime_id = last.id

\* C19: an author update leaves the number of stored authors unchanged, and
\* with a valid body and an id that is not stored it answers 404 and writes
\* nothing.
C19_AuthorUpdateUnknownId ==
  [][ last'.op = "author_update" =>
        /\ Cardinality(DOMAIN authors') = Cardinality(DOMAIN authors)
        /\ (AuthorSchemaValid(last'.body) /\ last'.id \notin DOMAIN authors)
           => (last'.status = NotFound /\ store' = store) ]_vars

\* C20: creating an episode whose anime_id is not stored answers 404,
\* whatever its other fields, and stores no episode.
C20_EpisodeCreateUnknownAnime ==
  [][ (last'.op = "episode_create" /\ last'.body.anime_id \notin DOMAIN animes)
        => (last'.status = NotFound /\ store' = store) ]_vars

\* C21: every request holds one session, and the session of a request is
\* closed in the end, whether its handler returned or raised: a session that
\* is not closed leads to the state where it is.
C21_SessionClosed ==
  \A w \in Workers : (sessions[w] # "closed") ~> (sessions[w] = "closed")

\* the handler of a request has raised 409 and its session is still to close
C21_Witness ==
  \E w \in Workers : sessions[w] = "raised" /\ last.status = Conflict

\* C22: the name check of an author create and its write are two steps, and
\* the check sees the stored rows only: a create that passed its check and
\* has not written yet does not make the check of the same name fail, and
\* while two creates of one name are both past their check, neither is stored.
C22_CheckThenWrite ==
  /\ \A w \in Workers :
       (/\ pending[w].op = "author_create"
        /\ \A i \in DOMAIN authors :
             authors[i].name # sanitize_string(pending[w].raw.name))
       => AuthorCreateCheck(pending[w].raw) = "pass"
  /\ \A w1, w2 \in Workers :
       (/\ w1 # w2
        /\ pending[w1].op = "author_create"
        /\ pending[w2].op = "author_create"
        /\ sanitize_string(pending[w1].raw.name) = sanitize_string(pending[w2].raw.name))
       => \A i \in DOMAIN authors :
            authors[i].name # sanitize_string(pending[w1].raw.name)

\* two creates of the same normalized name have both passed the check, and
\* neither has written
C22_Witness ==
  /\ pending[1].op = "author_create"
  /\ pending[2].op = "author_create"
  /\ sanitize_string(pending[1].raw.name) = sanitize_string(pending[2].raw.name)
  /\ \A i \in DOMAIN authors : authors[i].name # sanitize_string(pending[1].raw.name)

\* the normal form of a string, character by character: every blank is a
\* space, every letter is lowercase, and a space is kept only where it
\* follows a character that is no blank and another such character follows
Blanked(s) == [i \in 1..Len(s) |-> IF s[i] \in Whitespace THEN " " ELSE LowerChar(s[i])]
KeptAt(t, i) ==
  \/ t[i] # " "
  \/ /\ i > 1
     /\ t[i - 1] # " "
     /\ \E j \in (i + 1)..Len(t) : t[j] # " "
Normalized(s) ==
  LET t == Blanked(s)
      I == {i \in 1..Len(t) : KeptAt(t, i)}
  IN [k \in 1..Cardinality(I) |->
        t[CHOOSE i \in I : Cardinality({j \in I : j <= i}) = k]]

\* C23: the sanitizer of the schemas maps every string to its normal form
\* (no blank at either end, one space for each run of blanks inside, all
\* letters lowercase), and the names, categories and aliases that are
\* stored, and the name the uniqueness check of the author looks for, are
\* the normal forms of what the request carried.
C23_Normalized ==
  /\ last.op = "sanitize" => last.body.output = Normalized(last.body.input)
  /\ (last.op = "anime_create" /\ last.status = Created) =>
       /\ animes[last.id].name = Normalized(last.body.name)
       /\ animes[last.id].category = Normalized(last.body.category)
  /\ (last.op = "author_create" /\ last.status = Created) =>
       /\ authors[last.id].name = Normalized(last.body.name)
       /\ authors[last.id].alias = Normalized(last.body.alias)
  /\ (last.op = "author_create" /\ last.status = Conflict) =>
       \E i \in DOMAIN authors : authors[i].name = Normalized(last.body.name)

\* an author was stored under the normal form of a name given with blanks
\* around, a tab inside and capital letters
C23_Witness ==
  /\ last.op = "author_create"
  /\ last.status = Created
  /\ last.body.name = <<" ", "A", " ", "\t", "S", " ">>
  /\ authors[last.id].name = <<"a", " ", "s">>

\* C24: the validation of a body never stops at a field: it ends with a
\* list that has the error of every field whose value its validator
\* refuses, whatever the other fields hold.
SchemaFieldOf(op, f, k) ==
  CASE op = "anime_schema" -> AnimeSchemaField(f, k)
    [] op = "author_schema" -> AuthorSchemaField(f, k)
    [] op = "episode_schema" -> EpisodeSchemaField(f, k)

C24_ErrorPerField ==
  last.op \in {"anime_schema", "author_schema", "episode_schema"} =>
    /\ ~last.body.raised
    /\ last.body.errors =
         {f \in DOMAIN last.body.input : SchemaFieldOf(last.op, f, last.body.input[f]) # "ok"}

\* C25: the list of episodes is the stored episodes that match every filter
\* given with a value, 0 and the empty string included, absent filters being
\* the only ones ignored, from the offset (0 when absent) and at most limit
\* of them.
ListedEpisodes(q) ==
  {i \in DOMAIN episodes :
     /\ q.arc # {} => episodes[i].arc \in q.arc
     /\ q.temp # {} => episodes[i].season \in q.temp
     /\ q.name # {} => episodes[i].name \in q.name
     /\ q.episode # {} => episodes[i].episode \in q.episode
     /\ q.air_date # {} => episodes[i].air_date \in q.air_date}

C25_ListMatchesFilters ==
  last.op = "episode_list" =>
    LET q == last.body.query
        all == RowOrder(ListedEpisodes(q))
        from == IF q.start_index = {} THEN 0 ELSE CHOOSE n \in q.start_index : TRUE
    IN last.body.rows =
         [k \in 1..(IF Len(all) - from > q.page_size THEN q.page_size
                    ELSE IF Len(all) > from THEN Len(all) - from ELSE 0) |-> all[from + k]]

\* C26: the match of a date answers with exactly the stored animes released
\* on that date, exactly the stored authors born on that date and the
\* stored episodes aired on that date, and leaves every table as it was.
MatchIsExact ==
  /\ last.body.anime = {i \in DOMAIN animes : animes[i].release_date = last.body.target_date}
  /\ last.body.author = {i \in DOMAIN authors : authors[i].birthday = last.body.target_date}
  /\ last.body.episode = {i \in DOMAIN episodes : episodes[i].air_date = last.body.target_date}

C27_BirthdayOptional ==
  (last.op \in {"author_create", "author_update"} /\ last.body.birthday = NoBirthday)
    => last.status # Unprocessable

\* C28: get_by_episode answers with the anime that owns the episode, the one
\* whose id is the anime_id of the episode, and with nothing when there is
\* no episode of that id.
C28_AnimeOfEpisode ==
  last.op = "anime_get_by_episode" =>
    last.body.found = IF last.id \in DOMAIN episodes
                      THEN {episodes[last.id].anime_id}
                      ELSE {}

\* C29: the create validation of an episode answers, for every store and
\* every body, what it would answer if the name check and the number check
\* were run whether or not the anime has episodes.
ValidateWithoutGate(data) ==
  IF data.air_date > Today THEN Conflict
  ELSE IF data.anime_id \notin DOMAIN animes THEN NotFound
  ELSE IF \E e \in DOMAIN episodes :
            episodes[e].anime_id = data.anime_id /\ episodes[e].name = data.name
       THEN Conflict
  ELSE IF \E e \in DOMAIN episodes :
            /\ episodes[e].anime_id = data.anime_id
            /\ episodes[e].season = data.season
            /\ episodes[e].episode = data.episode
       THEN Conflict
  ELSE "pass"

C30_EpisodeAnimeStored ==
  \A e \in DOMAIN episodes : \E a \in DOMAIN animes : a = episodes[e].anime_id

\* the update of a stored episode towards an anime that is not stored has
\* just been refused
C30_Witness ==
  /\ last.op = "episode_update"
  /\ last.status = InternalError
  /\ last.id \in DOMAIN episodes
  /\ last.body.anime_id \notin DOMAIN animes
  /\ episodes[last.id].anime_id # last.body.anime_id

====
